---- MODULE Spec2Model ----
(***************************************************************************)
(* Adaptive concurrency primitives of performance_optimization_examples.c: *)
(* the adaptive spin lock, the lock-free task queue, the batch collector   *)
(* and the work-stealing queue, together with the parking table and the    *)
(* parking mutex the design builds on.  Every step is one shared-memory    *)
(* access (sequentially consistent atomics); the local computation that    *)
(* follows an access belongs to the same step.                             *)
(***************************************************************************)
EXTENDS Integers, Sequences, FiniteSets, TLC

NULL == 0

\* The threads contending for the one spin lock.
Threads == {1, 2}
NThreads == Cardinality(Threads)
\* Iterations (acquire, increment, release) each thread performs.
MaxIters == 2
\* Cap on the rise of contention_count, so that the state space is finite.
MaxContention == 2
\* The largest contention_count a run of the spin-budget scenario starts with.
MaxEstimate == 101
\* In that scenario the threads that call adaptive_spinlock_acquire; the
\* others take the lock with try_acquire.
Spinners == {1}

\* The producers and the consumers of the lock-free queue.
Producers == {1, 2}
Consumers == {1}
\* The producers that may stop for good in the middle of a call.
Stalling == {1}
\* Calls of lockfree_enqueue each producer makes.
MaxEnq == 2

\* The work-stealing queue: its capacity, the stealing threads and the calls
\* the owner and each stealer make.
Capacity == 2
Stealers == {1, 2}
MaxPush == 3
MaxPop == 1
MaxSteal == 1
\* Calls the single thread of the sequential runs makes.
SeqCalls == 7

\* The dispatcher threads and the largest number of ready tasks.
Dispatchers == {1, 2}
MaxReady == 50

\* The parking table: its bucket count, the lock identities that park (both
\* hash to bucket 1), the threads that park and those that unpark, and the
\* calls of park they make in all.
NUM_BUCKETS == 257
LockIds == {1, 1 + NUM_BUCKETS}
Parkers == {1, 2, 3}
Wakers == {4}
ParkThreads == Parkers \cup Wakers
MaxParks == 3

\* The threads that acquire and release the parking mutex.
MThreads == {1, 2, 3}

\* The longest wait time passed to update_fairness_timeout.
MaxSample == 16000

VARIABLES
  \* ---- AdaptiveSpinLock
  lock,              \* AdaptiveSpinLock.lock: 0 unlocked, 1 locked
  contention_count,  \* AdaptiveSpinLock.contention_count
  cc0,               \* contention_count at the start of the run
  pcL,               \* per thread: position in adaptive_spinlock_acquire / the caller
  spin_count,        \* per thread: local spin_count
  max_spin,          \* per thread: local max_spin
  counter,           \* the shared counter the lock protects
  tmp,               \* per thread: the counter value read in the critical section
  iters,             \* per thread: completed acquire/release pairs
  \* ---- LockFreeTaskQueue
  head,              \* queue->head: the sentinel node
  tail,              \* queue->tail
  size,              \* queue->size
  next,              \* TaskNode.next of every allocated node (NULL = 0)
  task,              \* TaskNode.task of every allocated node
  pcQ,               \* per producer: position in lockfree_enqueue
  node,              \* per producer: local node
  prev_tail,         \* per producer: local prev_tail
  nextL,             \* per producer: local next
  calls,             \* per producer: calls of lockfree_enqueue made so far
  enqueued,          \* per producer: the values whose enqueue linked a node, in order
  pcD,               \* per consumer: position in dequeue
  dh,                \* per consumer: the head read
  dn,                \* per consumer: the head.next read
  dequeued,          \* the values returned by successful dequeues, in order
  \* ---- WorkStealingQueue
  tasks,             \* q->tasks: the slot array
  top,               \* q->top
  bottom,            \* q->bottom
  pcO,               \* the owner's position in ws_push / pop
  ob,                \* owner: local b
  ot,                \* owner: local t
  oitem,             \* owner: the task pushed, or the item read by pop
  pushes,            \* calls of ws_push made so far
  pops,              \* calls of pop made so far
  atCall,            \* the queue as it was when the current ws_push was called
  lastPush,          \* outcome of the latest capacity test of ws_push
  pcS,               \* per stealer: position in ws_steal
  st,                \* per stealer: local t
  sb,                \* per stealer: local b
  stask,             \* per stealer: local task
  steals,            \* per stealer: calls of ws_steal made so far
  log,               \* the completed calls with their results, in completion order
  quota,             \* the number of calls of each kind the callers make
  \* ---- batch collection
  ready_queue,       \* state->ready_queue, in pop order
  source,            \* the ready queue as it was constructed
  guard,             \* the dispatcher inside the critical section of the ready queue, or 0
  pcB,               \* per dispatcher: position in collect / process
  batch,             \* per dispatcher: batch->tasks[0 .. count-1]
  entry,             \* per dispatcher: the ready queue when the critical section was entered
  idx,               \* per dispatcher: the loop index i of process_task_batch
  executed,          \* per dispatcher: the tasks executed, in order
  sizes,             \* the counts returned by collect, in return order
  \* ---- AdaptiveFairMutex
  wait_time_avg,     \* AdaptiveFairMutex.wait_time_avg
  fairness_timeout_us, \* AdaptiveFairMutex.fairness_timeout_us
  pcF,               \* position of the caller of update_fairness_timeout
  old_avg,           \* its local old_avg
  new_avg,           \* its local new_avg
  wait_time_us,      \* its argument
  updated,           \* a call has returned
  \* ---- ParkingTable
  buckets,           \* per bucket: the waiter records, in insertion order
  bguard,            \* per bucket: the thread holding the bucket's guard, or 0
  woken,             \* per thread: an unpark has resumed the thread
  flag,              \* per lock identity: the condition its waiters block on
  pcP,               \* per thread: position in park / unpark
  parg,              \* per thread: the lock identity passed to park / unpark
  pall,              \* per thread: the call is unpark_all
  parks,             \* calls of park made so far
  validated,         \* per thread: what validate was under the guard of its last park
  inserted,          \* per lock identity: the threads inserted, in insertion order
  resumed,           \* per lock identity: the threads removed by unpark, in removal order
  found,             \* per thread: the result of its last unpark
  \* ---- AdaptiveMutex
  word,              \* the lock word: LOCKED and HAS_PARKED bits
  pcM,               \* per thread: position in acquire / release
  mv,                \* per thread: v, the value of the word it last loaded
  spun,              \* per thread: the spin budget is spent
  recent,            \* per thread: spin_data.recent_contention
  timed,             \* per thread: the acquire has a deadline
  mret               \* per thread: the result of its last acquire

lockVars == <<lock, contention_count, pcL, spin_count, max_spin, counter, tmp, iters>>
queueVars == <<head, tail, size, next, task, pcQ, node, prev_tail, nextL, calls,
               enqueued, pcD, dh, dn, dequeued>>

dequeVars == <<tasks, top, bottom, pcO, ob, ot, oitem, pushes, pops, atCall, lastPush,
               pcS, st, sb, stask, steals, log, quota>>

batchVars == <<ready_queue, source, guard, pcB, batch, entry, idx, executed, sizes>>

tableVars == <<buckets, bguard, woken>>
parkVars == <<flag, pcP, parg, pall, parks, validated, inserted, resumed, found>>
mutexVars == <<word, pcM, mv, spun, recent, timed, mret>>

startVars == <<cc0>>
fairVars == <<wait_time_avg, fairness_timeout_us, pcF, old_avg, new_avg, wait_time_us, updated>>

vars == <<startVars, fairVars, lockVars, queueVars, dequeVars, batchVars, tableVars, parkVars, mutexVars>>

otherThanLock == <<startVars, fairVars, queueVars, dequeVars, batchVars, tableVars, parkVars, mutexVars>>
otherThanQueue == <<startVars, fairVars, lockVars, dequeVars, batchVars, tableVars, parkVars, mutexVars>>
otherThanDeque == <<startVars, fairVars, lockVars, queueVars, batchVars, tableVars, parkVars, mutexVars>>
otherThanBatch == <<startVars, fairVars, lockVars, queueVars, dequeVars, tableVars, parkVars, mutexVars>>
otherThanPark == <<startVars, fairVars, lockVars, queueVars, dequeVars, batchVars, mutexVars>>
otherThanFair == <<startVars, lockVars, queueVars, dequeVars, batchVars, tableVars, parkVars, mutexVars>>
otherThanMutex == <<startVars, fairVars, lockVars, queueVars, dequeVars, batchVars, parkVars>>

\* A budget that does not look at the contention.
AdaptiveSpinCountFixed(contention) == 40

\* get_adaptive_spin_count: the budget for a value of contention_count.
AdaptiveSpinCount(contention) ==
  IF contention < 10 THEN 20
  ELSE IF contention < 100 THEN 40
  ELSE 60

\* The lock at the start of a run: free, with contention_count c.
LockInitAt(c) ==
  /\ lock = 0
  /\ contention_count = c
  /\ cc0 = c
  /\ pcL = [t \in Threads |-> "idle"]
  /\ spin_count = [t \in Threads |-> 0]
  /\ max_spin = [t \in Threads |-> 0]
  /\ counter = 0
  /\ tmp = [t \in Threads |-> 0]
  /\ iters = [t \in Threads |-> 0]

\* The lock after construction.
LockInit == LockInitAt(0)

\* A caller enters adaptive_spinlock_acquire (expected = 0, spin_count = 0).
CallAcquire(t) ==
  /\ pcL[t] = "idle"
  /\ iters[t] < MaxIters
  /\ pcL' = [pcL EXCEPT ![t] = "get_spin"]
  /\ spin_count' = [spin_count EXCEPT ![t] = 0]
  /\ UNCHANGED <<lock, contention_count, max_spin, counter, tmp, iters>>
  /\ UNCHANGED otherThanLock

\* max_spin = get_adaptive_spin_count(lock): one load of contention_count.
GetSpin(t) ==
  /\ pcL[t] = "get_spin"
  /\ max_spin' = [max_spin EXCEPT ![t] = AdaptiveSpinCount(contention_count)]
  /\ pcL' = [pcL EXCEPT ![t] = "cas"]
  /\ UNCHANGED <<lock, contention_count, spin_count, counter, tmp, iters>>
  /\ UNCHANGED otherThanLock

\* A lost reset of expected (line 50): after a failed attempt expected holds
\* the value read, 1.
CasExpectedStale(t) == IF spin_count[t] > 0 THEN 1 ELSE 0

\* The value the compare-and-swap of line 36 compares the lock word with:
\* expected is 0 at entry and reset to 0 after every failed attempt.
CasExpected(t) == 0

\* atomic_compare_exchange_weak(&lock->lock, &expected, 1) succeeds.
CasOk(t) ==
  /\ pcL[t] = "cas"
  /\ lock = CasExpected(t)
  /\ lock' = 1
  /\ pcL' = [pcL EXCEPT ![t] = "load_cc"]
  /\ UNCHANGED <<contention_count, spin_count, max_spin, counter, tmp, iters>>
  /\ UNCHANGED otherThanLock

\* The loop body after a failed compare-and-swap: spin_count++ < max_spin
\* pauses and retries, otherwise the thread goes on to raise contention_count.
AfterFailedCas(t) ==
  /\ spin_count' = [spin_count EXCEPT ![t] = @ + 1]
  /\ pcL' = [pcL EXCEPT ![t] = IF spin_count[t] < max_spin[t] THEN "cas" ELSE "inc_cc"]
  /\ UNCHANGED <<lock, contention_count, max_spin, counter, tmp, iters>>
  /\ UNCHANGED otherThanLock

\* The compare-and-swap fails because the lock word is not 0.
CasFail(t) ==
  /\ pcL[t] = "cas"
  /\ lock # 0
  /\ AfterFailedCas(t)

\* The weak compare-and-swap fails although the lock word is 0.
CasSpurious(t) ==
  /\ pcL[t] = "cas"
  /\ lock = 0
  /\ AfterFailedCas(t)

\* atomic_fetch_add(&contention_count, 1); sched_yield(); spin_count = 0.
IncContention(t) ==
  /\ pcL[t] = "inc_cc"
  /\ contention_count < cc0 + MaxContention
  /\ contention_count' = contention_count + 1
  /\ spin_count' = [spin_count EXCEPT ![t] = 0]
  /\ pcL' = [pcL EXCEPT ![t] = "cas"]
  /\ UNCHANGED <<lock, max_spin, counter, tmp, iters>>
  /\ UNCHANGED otherThanLock

\* A decrement that does not look at the counter.
DecaysAlways(c) == TRUE

\* The guard of the decrement: contention_count > 0.
Decays(c) == c > 0

\* if (atomic_load(&contention_count) > 0): the load after the acquisition.
LoadContention(t) ==
  /\ pcL[t] = "load_cc"
  /\ pcL' = [pcL EXCEPT ![t] = IF Decays(contention_count) THEN "sub_cc" ELSE "cs_read"]
  /\ UNCHANGED <<lock, contention_count, spin_count, max_spin, counter, tmp, iters>>
  /\ UNCHANGED otherThanLock

\* atomic_fetch_sub(&contention_count, 1); return 0.
SubContention(t) ==
  /\ pcL[t] = "sub_cc"
  /\ contention_count' = contention_count - 1
  /\ pcL' = [pcL EXCEPT ![t] = "cs_read"]
  /\ UNCHANGED <<lock, spin_count, max_spin, counter, tmp, iters>>
  /\ UNCHANGED otherThanLock

\* try_acquire: one compare-and-swap from Unlocked to Locked, never blocks.
TryAcquire(t) ==
  /\ pcL[t] = "idle"
  /\ iters[t] < MaxIters
  /\ IF lock = 0
       THEN /\ lock' = 1
            /\ pcL' = [pcL EXCEPT ![t] = "cs_read"]
       ELSE UNCHANGED <<lock, pcL>>
  /\ UNCHANGED <<contention_count, spin_count, max_spin, counter, tmp, iters>>
  /\ UNCHANGED otherThanLock

\* The critical section of the scenario: counter++ as a read and a write.
CsRead(t) ==
  /\ pcL[t] = "cs_read"
  /\ tmp' = [tmp EXCEPT ![t] = counter]
  /\ pcL' = [pcL EXCEPT ![t] = "cs_write"]
  /\ UNCHANGED <<lock, contention_count, spin_count, max_spin, counter, iters>>
  /\ UNCHANGED otherThanLock

CsWrite(t) ==
  /\ pcL[t] = "cs_write"
  /\ counter' = tmp[t] + 1
  /\ pcL' = [pcL EXCEPT ![t] = "release"]
  /\ UNCHANGED <<lock, contention_count, spin_count, max_spin, tmp, iters>>
  /\ UNCHANGED otherThanLock

\* release: the lock word is cleared atomically.
Release(t) ==
  /\ pcL[t] = "release"
  /\ lock' = 0
  /\ pcL' = [pcL EXCEPT ![t] = "idle"]
  /\ iters' = [iters EXCEPT ![t] = @ + 1]
  /\ UNCHANGED <<contention_count, spin_count, max_spin, counter, tmp>>
  /\ UNCHANGED otherThanLock

NextLock ==
  \E t \in Threads :
    \/ CallAcquire(t)
    \/ GetSpin(t)
    \/ CasOk(t)
    \/ CasFail(t)
    \/ CasSpurious(t)
    \/ IncContention(t)
    \/ LoadContention(t)
    \/ SubContention(t)
    \/ TryAcquire(t)
    \/ CsRead(t)
    \/ CsWrite(t)
    \/ Release(t)

\* The same acquire code under threads that keep acquiring and releasing for
\* ever: the caller loops without counting, the critical section is empty.
CallAgain(t) ==
  /\ pcL[t] = "idle"
  /\ pcL' = [pcL EXCEPT ![t] = "get_spin"]
  /\ spin_count' = [spin_count EXCEPT ![t] = 0]
  /\ UNCHANGED <<lock, contention_count, max_spin, counter, tmp, iters>>
  /\ UNCHANGED otherThanLock

Leave(t) ==
  /\ pcL[t] = "cs_read"
  /\ lock' = 0
  /\ pcL' = [pcL EXCEPT ![t] = "idle"]
  /\ UNCHANGED <<contention_count, spin_count, max_spin, counter, tmp, iters>>
  /\ UNCHANGED otherThanLock

\* The steps of a thread that is inside acquire or holds the lock.
Running(t) ==
  \/ GetSpin(t)
  \/ CasOk(t)
  \/ CasFail(t)
  \/ IncContention(t)
  \/ LoadContention(t)
  \/ SubContention(t)
  \/ Leave(t)

NextLockLoop == \E t \in Threads : CallAgain(t) \/ Running(t)

\* The spin-budget scenario: the spinners acquire with
\* adaptive_spinlock_acquire, the other threads with try_acquire.
NextSpin ==
  \/ \E t \in Spinners :
       \/ CallAcquire(t)
       \/ GetSpin(t)
       \/ CasOk(t)
       \/ CasFail(t)
       \/ CasSpurious(t)
       \/ IncContention(t)
       \/ LoadContention(t)
       \/ SubContention(t)
  \/ \E t \in Threads \ Spinners : TryAcquire(t)
  \/ \E t \in Threads :
       \/ CsRead(t)
       \/ CsWrite(t)
       \/ Release(t)

(***************************************************************************)
(* 2. LockFreeTaskQueue                                                    *)
(***************************************************************************)

\* The sentinel node the queue is constructed with, and the node malloc
\* returns for the k-th call of producer p (every call gets a fresh node).
Sentinel == 1
NodeOf(p, k) == 1 + (p - 1) * MaxEnq + k
Nodes == 1..(1 + Cardinality(Producers) * MaxEnq)
\* The task the k-th call of producer p enqueues.
Item(p, k) == 10 * p + k
ProducerOf(v) == v \div 10

QueueInit ==
  /\ head = Sentinel
  /\ tail = Sentinel
  /\ size = 0
  /\ next = [n \in Nodes |-> NULL]
  /\ task = [n \in Nodes |-> 0]
  /\ pcQ = [p \in Producers |-> "idle"]
  /\ node = [p \in Producers |-> NULL]
  /\ prev_tail = [p \in Producers |-> NULL]
  /\ nextL = [p \in Producers |-> NULL]
  /\ calls = [p \in Producers |-> 0]
  /\ enqueued = [p \in Producers |-> <<>>]
  /\ pcD = [c \in Consumers |-> "idle"]
  /\ dh = [c \in Consumers |-> NULL]
  /\ dn = [c \in Consumers |-> NULL]
  /\ dequeued = <<>>

\* lockfree_enqueue, lines 78-82: the node is allocated and filled.
EnqCall(p) ==
  /\ pcQ[p] = "idle"
  /\ calls[p] < MaxEnq
  /\ calls' = [calls EXCEPT ![p] = @ + 1]
  /\ node' = [node EXCEPT ![p] = NodeOf(p, calls[p] + 1)]
  /\ task' = [task EXCEPT ![NodeOf(p, calls[p] + 1)] = Item(p, calls[p] + 1)]
  /\ next' = [next EXCEPT ![NodeOf(p, calls[p] + 1)] = NULL]
  /\ pcQ' = [pcQ EXCEPT ![p] = "load_tail"]
  /\ UNCHANGED <<head, tail, size, prev_tail, nextL, enqueued, pcD, dh, dn, dequeued>>
  /\ UNCHANGED otherThanQueue

\* lockfree_enqueue, line 79: PyMem_Malloc fails and the call returns -1.
EnqNoMem(p) ==
  /\ pcQ[p] = "idle"
  /\ calls[p] < MaxEnq
  /\ calls' = [calls EXCEPT ![p] = @ + 1]
  /\ UNCHANGED <<head, tail, size, next, task, pcQ, node, prev_tail, nextL,
                 enqueued, pcD, dh, dn, dequeued>>
  /\ UNCHANGED otherThanQueue

\* prev_tail = load(&queue->tail)
LoadTail(p) ==
  /\ pcQ[p] = "load_tail"
  /\ prev_tail' = [prev_tail EXCEPT ![p] = tail]
  /\ pcQ' = [pcQ EXCEPT ![p] = "load_next"]
  /\ UNCHANGED <<head, tail, size, next, task, node, nextL, calls, enqueued,
                 pcD, dh, dn, dequeued>>
  /\ UNCHANGED otherThanQueue

\* next = load(&prev_tail->next)
LoadNext(p) ==
  /\ pcQ[p] = "load_next"
  /\ nextL' = [nextL EXCEPT ![p] = next[prev_tail[p]]]
  /\ pcQ' = [pcQ EXCEPT ![p] = "check_tail"]
  /\ UNCHANGED <<head, tail, size, next, task, node, prev_tail, calls, enqueued,
                 pcD, dh, dn, dequeued>>
  /\ UNCHANGED otherThanQueue

\* if (prev_tail == load(&queue->tail)) and the branch on next == NULL.
CheckTail(p) ==
  /\ pcQ[p] = "check_tail"
  /\ pcQ' = [pcQ EXCEPT ![p] =
               IF prev_tail[p] # tail THEN "load_tail"
               ELSE IF nextL[p] = NULL THEN "cas_next" ELSE "help"]
  /\ UNCHANGED <<head, tail, size, next, task, node, prev_tail, nextL, calls,
                 enqueued, pcD, dh, dn, dequeued>>
  /\ UNCHANGED otherThanQueue

\* A store of node into prev_tail->next that does not compare with NULL.
LinksBlind(p) == TRUE

\* Whether compare_exchange(&prev_tail->next, NULL, node) finds NULL.
Links(p) == next[prev_tail[p]] = NULL

\* if (compare_exchange(&prev_tail->next, NULL, node)) break;
CasNext(p) ==
  /\ pcQ[p] = "cas_next"
  /\ IF Links(p)
       THEN /\ next' = [next EXCEPT ![prev_tail[p]] = node[p]]
            /\ enqueued' = [enqueued EXCEPT ![p] = Append(@, task[node[p]])]
            /\ pcQ' = [pcQ EXCEPT ![p] = "swing"]
       ELSE /\ pcQ' = [pcQ EXCEPT ![p] = "load_tail"]
            /\ UNCHANGED <<next, enqueued>>
  /\ UNCHANGED <<head, tail, size, task, node, prev_tail, nextL, calls,
                 pcD, dh, dn, dequeued>>
  /\ UNCHANGED otherThanQueue

\* An enqueuer that finds the tail lagging and leaves it where it is.
HelpedNot(p) == tail

\* The tail after compare_exchange(&queue->tail, prev_tail, next).
Helped(p) == IF tail = prev_tail[p] THEN nextL[p] ELSE tail

\* The helping branch: compare_exchange(&queue->tail, prev_tail, next).
Help(p) ==
  /\ pcQ[p] = "help"
  /\ tail' = Helped(p)
  /\ pcQ' = [pcQ EXCEPT ![p] = "load_tail"]
  /\ UNCHANGED <<head, size, next, task, node, prev_tail, nextL, calls, enqueued,
                 pcD, dh, dn, dequeued>>
  /\ UNCHANGED otherThanQueue

\* A plain store of node into the tail, whatever the tail is.
SwungBlind(p) == node[p]

\* The tail after compare_exchange(&queue->tail, prev_tail, node).
Swung(p) == IF tail = prev_tail[p] THEN node[p] ELSE tail

\* After the loop: compare_exchange(&queue->tail, prev_tail, node).
Swing(p) ==
  /\ pcQ[p] = "swing"
  /\ tail' = Swung(p)
  /\ pcQ' = [pcQ EXCEPT ![p] = "add_size"]
  /\ UNCHANGED <<head, size, next, task, node, prev_tail, nextL, calls, enqueued,
                 pcD, dh, dn, dequeued>>
  /\ UNCHANGED otherThanQueue

\* _Py_atomic_add_int(&queue->size, 1); return 0.
AddSize(p) ==
  /\ pcQ[p] = "add_size"
  /\ size' = size + 1
  /\ pcQ' = [pcQ EXCEPT ![p] = "idle"]
  /\ UNCHANGED <<head, tail, next, task, node, prev_tail, nextL, calls, enqueued,
                 pcD, dh, dn, dequeued>>
  /\ UNCHANGED otherThanQueue

\* dequeue: read head.
DeqLoadHead(c) ==
  /\ pcD[c] = "idle"
  /\ dh' = [dh EXCEPT ![c] = head]
  /\ pcD' = [pcD EXCEPT ![c] = "d_next"]
  /\ UNCHANGED <<head, tail, size, next, task, pcQ, node, prev_tail, nextL, calls,
                 enqueued, dn, dequeued>>
  /\ UNCHANGED otherThanQueue

\* dequeue: read head.next; nothing linked after the sentinel is the empty
\* queue, and the call returns the empty result.
DeqLoadNext(c) ==
  /\ pcD[c] = "d_next"
  /\ dn' = [dn EXCEPT ![c] = next[dh[c]]]
  /\ pcD' = [pcD EXCEPT ![c] = IF next[dh[c]] = NULL THEN "idle" ELSE "d_cas"]
  /\ UNCHANGED <<head, tail, size, next, task, pcQ, node, prev_tail, nextL, calls,
                 enqueued, dh, dequeued>>
  /\ UNCHANGED otherThanQueue

\* dequeue: advance head to head.next by compare-and-swap and return the
\* payload of the node removed; a lost race starts over.
DeqCas(c) ==
  /\ pcD[c] = "d_cas"
  /\ IF head = dh[c]
       THEN /\ head' = dn[c]
            /\ dequeued' = Append(dequeued, task[dn[c]])
            /\ pcD' = [pcD EXCEPT ![c] = "idle"]
       ELSE /\ pcD' = [pcD EXCEPT ![c] = "idle"]
            /\ UNCHANGED <<head, dequeued>>
  /\ UNCHANGED <<tail, size, next, task, pcQ, node, prev_tail, nextL, calls,
                 enqueued, dh, dn>>
  /\ UNCHANGED otherThanQueue

\* A step of producer p inside a call of lockfree_enqueue.
EnqStep(p) ==
  \/ LoadTail(p)
  \/ LoadNext(p)
  \/ CheckTail(p)
  \/ CasNext(p)
  \/ Help(p)
  \/ Swing(p)
  \/ AddSize(p)

\* Concurrent calls of lockfree_enqueue and nothing else.
NextEnq ==
  \E p \in Producers :
    \/ EnqCall(p)
    \/ EnqNoMem(p)
    \/ EnqStep(p)

NextQueue ==
  \/ \E p \in Producers :
       \/ EnqCall(p)
       \/ EnqNoMem(p)
       \/ LoadTail(p)
       \/ LoadNext(p)
       \/ CheckTail(p)
       \/ CasNext(p)
       \/ Help(p)
       \/ Swing(p)
       \/ AddSize(p)
  \/ \E c \in Consumers :
       \/ DeqLoadHead(c)
       \/ DeqLoadNext(c)
       \/ DeqCas(c)

(***************************************************************************)
(* 3. WorkStealingQueue                                                    *)
(***************************************************************************)

Slots == 0..(Capacity - 1)
\* The results that are not an item: a full queue (push), and NULL / none.
Full == -1
None == 0

\* The queue after construction; the callers make at most q.push, q.pop and
\* (per stealer) q.steal calls, q.calls in all.
DequeInit(q) ==
  /\ quota = q
  /\ tasks = [i \in Slots |-> None]
  /\ top = 0
  /\ bottom = 0
  /\ pcO = "idle"
  /\ ob = 0
  /\ ot = 0
  /\ oitem = None
  /\ pushes = 0
  /\ pops = 0
  /\ atCall = [size |-> 0, bottom |-> 0, tasks |-> [i \in Slots |-> None]]
  /\ lastPush = [ret |-> None, atCall |-> 0, atCheck |-> 0, frame |-> TRUE]
  /\ pcS = [s \in Stealers |-> "idle"]
  /\ st = [s \in Stealers |-> 0]
  /\ sb = [s \in Stealers |-> 0]
  /\ stask = [s \in Stealers |-> None]
  /\ steals = [s \in Stealers |-> 0]
  /\ log = <<>>

\* The calls made so far.
CallsMade == pushes + pops + (LET Sum[S \in SUBSET Stealers] ==
                                IF S = {} THEN 0
                                ELSE LET s == CHOOSE x \in S : TRUE
                                     IN steals[s] + Sum[S \ {s}]
                              IN Sum[Stealers])

\* The callers have calls left to make.
MayCall == CallsMade < quota.calls

\* ws_push: b = atomic_load(&q->bottom); the item pushed is a fresh one.
PushLoadBottom ==
  /\ pcO = "idle"
  /\ MayCall
  /\ pushes < quota.push
  /\ pushes' = pushes + 1
  /\ oitem' = pushes + 1
  /\ ob' = bottom
  /\ atCall' = [size |-> bottom - top, bottom |-> bottom, tasks |-> tasks]
  /\ pcO' = "push_top"
  /\ UNCHANGED <<tasks, top, bottom, ot, pops, lastPush, pcS, st, sb, stask, steals, log, quota>>
  /\ UNCHANGED otherThanDeque

\* A push that never rejects.
IsFullNever(b, t) == FALSE

\* A test that lets a full queue through: b - t > capacity.
IsFullOffByOne(b, t) == b - t < 0 \/ b - t > Capacity

\* if (b - t >= q->capacity): the int difference is compared with a size_t,
\* so a negative difference converts to a huge value and compares as full.
IsFull(b, t) == b - t < 0 \/ b - t >= Capacity

\* ws_push: t = atomic_load_acquire(&q->top) and the capacity test; a full
\* queue returns -1.
PushLoadTop ==
  /\ pcO = "push_top"
  /\ ot' = top
  /\ IF IsFull(ob, top)
       THEN /\ pcO' = "idle"
            /\ lastPush' = [ret |-> Full, atCall |-> atCall.size, atCheck |-> ob - top,
                            frame |-> bottom = atCall.bottom /\ tasks = atCall.tasks]
            /\ log' = Append(log, [op |-> "push", val |-> oitem, ret |-> Full])
       ELSE /\ pcO' = "push_write"
            /\ lastPush' = [ret |-> None, atCall |-> atCall.size, atCheck |-> ob - top,
                            frame |-> TRUE]
            /\ UNCHANGED log
  /\ UNCHANGED <<tasks, top, bottom, ob, oitem, pushes, pops, atCall, pcS, st, sb, stask, steals, quota>>
  /\ UNCHANGED otherThanDeque

\* A slot index that is off by one.
PushSlotNext(b) == (b + 1) % Capacity

\* The slot ws_push writes: b % q->capacity.
PushSlot(b) == b % Capacity

\* ws_push: q->tasks[b % q->capacity] = task
PushWrite ==
  /\ pcO = "push_write"
  /\ tasks' = [tasks EXCEPT ![PushSlot(ob)] = oitem]
  /\ pcO' = "push_store"
  /\ UNCHANGED <<top, bottom, ob, ot, oitem, pushes, pops, atCall, lastPush,
                 pcS, st, sb, stask, steals, log, quota>>
  /\ UNCHANGED otherThanDeque

\* ws_push: atomic_store_release(&q->bottom, b + 1); return 0.
PushStore ==
  /\ pcO = "push_store"
  /\ bottom' = ob + 1
  /\ pcO' = "idle"
  /\ log' = Append(log, [op |-> "push", val |-> oitem, ret |-> 0])
  /\ UNCHANGED <<tasks, top, ob, ot, oitem, pushes, pops, atCall, lastPush,
                 pcS, st, sb, stask, steals, quota>>
  /\ UNCHANGED otherThanDeque

\* pop (owner): read bottom and top; an empty queue returns none.
PopLoad ==
  /\ pcO = "idle"
  /\ MayCall
  /\ pops < quota.pop
  /\ pops' = pops + 1
  /\ ob' = bottom
  /\ ot' = top
  /\ IF top >= bottom
       THEN /\ pcO' = "idle"
            /\ log' = Append(log, [op |-> "pop", val |-> None, ret |-> None])
       ELSE /\ pcO' = "pop_store"
            /\ UNCHANGED log
  /\ UNCHANGED <<tasks, top, bottom, oitem, pushes, atCall, lastPush, pcS, st, sb, stask, steals, quota>>
  /\ UNCHANGED otherThanDeque

\* pop: the owner claims slot bottom-1 by publishing bottom-1.
PopStore ==
  /\ pcO = "pop_store"
  /\ bottom' = ob - 1
  /\ pcO' = "pop_top"
  /\ UNCHANGED <<tasks, top, ob, ot, oitem, pushes, pops, atCall, lastPush,
                 pcS, st, sb, stask, steals, log, quota>>
  /\ UNCHANGED otherThanDeque

\* pop: read top again and the item at bottom-1. Below bottom-1 the item is
\* the owner's; at bottom-1 it is the last one and is raced for; above it
\* the stealers have taken everything.
PopTop ==
  /\ pcO = "pop_top"
  /\ ot' = top
  /\ oitem' = tasks[(ob - 1) % Capacity]
  /\ IF top < ob - 1
       THEN /\ pcO' = "idle"
            /\ log' = Append(log, [op |-> "pop", val |-> None,
                                   ret |-> tasks[(ob - 1) % Capacity]])
       ELSE /\ pcO' = IF top = ob - 1 THEN "pop_cas" ELSE "pop_lost"
            /\ UNCHANGED log
  /\ UNCHANGED <<tasks, top, bottom, ob, pushes, pops, atCall, lastPush,
                 pcS, st, sb, stask, steals, quota>>
  /\ UNCHANGED otherThanDeque

\* pop: the race for the last item, a compare-and-swap of top to top+1; the
\* loser returns none.
PopCas ==
  /\ pcO = "pop_cas"
  /\ IF top = ot
       THEN /\ top' = ot + 1
            /\ pcO' = "pop_won"
       ELSE /\ pcO' = "pop_lost"
            /\ UNCHANGED top
  /\ UNCHANGED <<tasks, bottom, ob, ot, oitem, pushes, pops, atCall, lastPush,
                 pcS, st, sb, stask, steals, log, quota>>
  /\ UNCHANGED otherThanDeque

\* pop: bottom is set back to the (now empty) queue's top and the call returns.
PopRestore ==
  /\ pcO \in {"pop_won", "pop_lost"}
  /\ bottom' = ob
  /\ pcO' = "idle"
  /\ log' = Append(log, [op |-> "pop", val |-> None,
                         ret |-> IF pcO = "pop_won" THEN oitem ELSE None])
  /\ UNCHANGED <<tasks, top, ob, ot, oitem, pushes, pops, atCall, lastPush,
                 pcS, st, sb, stask, steals, quota>>
  /\ UNCHANGED otherThanDeque

\* ws_steal: t = atomic_load_acquire(&q->top)
StealLoadTop(s) ==
  /\ pcS[s] = "idle"
  /\ MayCall
  /\ steals[s] < quota.steal
  /\ steals' = [steals EXCEPT ![s] = @ + 1]
  /\ st' = [st EXCEPT ![s] = top]
  /\ pcS' = [pcS EXCEPT ![s] = "s_bottom"]
  /\ UNCHANGED <<tasks, top, bottom, pcO, ob, ot, oitem, pushes, pops, atCall,
                 lastPush, sb, stask, log, quota>>
  /\ UNCHANGED otherThanDeque

\* ws_steal: b = atomic_load_acquire(&q->bottom); if (t >= b) return NULL.
StealLoadBottom(s) ==
  /\ pcS[s] = "s_bottom"
  /\ sb' = [sb EXCEPT ![s] = bottom]
  /\ IF st[s] >= bottom
       THEN /\ pcS' = [pcS EXCEPT ![s] = "idle"]
            /\ log' = Append(log, [op |-> "steal", val |-> None, ret |-> None])
       ELSE /\ pcS' = [pcS EXCEPT ![s] = "s_read"]
            /\ UNCHANGED log
  /\ UNCHANGED <<tasks, top, bottom, pcO, ob, ot, oitem, pushes, pops, atCall,
                 lastPush, st, stask, steals, quota>>
  /\ UNCHANGED otherThanDeque

\* A slot index that is off by one.
StealSlotNext(t) == (t + 1) % Capacity

\* The slot ws_steal reads: t % q->capacity.
StealSlot(t) == t % Capacity

\* ws_steal: task = q->tasks[t % q->capacity]
StealRead(s) ==
  /\ pcS[s] = "s_read"
  /\ stask' = [stask EXCEPT ![s] = tasks[StealSlot(st[s])]]
  /\ pcS' = [pcS EXCEPT ![s] = "s_cas"]
  /\ UNCHANGED <<tasks, top, bottom, pcO, ob, ot, oitem, pushes, pops, atCall,
                 lastPush, st, sb, steals, log, quota>>
  /\ UNCHANGED otherThanDeque

\* A compare-and-swap that also succeeds when top has moved on.
StealWinsLate(s) == top >= st[s]

\* A steal that takes the item without comparing top.
StealWinsBlind(s) == TRUE

\* Whether atomic_compare_exchange_strong(&q->top, &t, t + 1) finds t.
StealWins(s) == top = st[s]

\* ws_steal: the compare-and-swap of top; failure returns NULL.
StealCas(s) ==
  /\ pcS[s] = "s_cas"
  /\ IF StealWins(s)
       THEN /\ top' = st[s] + 1
            /\ log' = Append(log, [op |-> "steal", val |-> None, ret |-> stask[s]])
       ELSE /\ UNCHANGED top
            /\ log' = Append(log, [op |-> "steal", val |-> None, ret |-> None])
  /\ pcS' = [pcS EXCEPT ![s] = "idle"]
  /\ UNCHANGED <<tasks, bottom, pcO, ob, ot, oitem, pushes, pops, atCall,
                 lastPush, st, sb, stask, steals, quota>>
  /\ UNCHANGED otherThanDeque

NextDeque ==
  \/ PushLoadBottom
  \/ PushLoadTop
  \/ PushWrite
  \/ PushStore
  \/ PopLoad
  \/ PopStore
  \/ PopTop
  \/ PopCas
  \/ PopRestore
  \/ \E s \in Stealers :
       \/ StealLoadTop(s)
       \/ StealLoadBottom(s)
       \/ StealRead(s)
       \/ StealCas(s)

\* No operation of the queue is in flight.
DequeQuiet == pcO = "idle" /\ \A s \in Stealers : pcS[s] = "idle"

\* A single thread calls push, pop and steal one after the other: a call
\* starts only when no other is in flight.
NextDequeSeq ==
  \/ DequeQuiet /\ PushLoadBottom
  \/ PushLoadTop
  \/ PushWrite
  \/ PushStore
  \/ DequeQuiet /\ PopLoad
  \/ PopStore
  \/ PopTop
  \/ PopCas
  \/ PopRestore
  \/ \E s \in Stealers :
       \/ DequeQuiet /\ StealLoadTop(s)
       \/ StealLoadBottom(s)
       \/ StealRead(s)
       \/ StealCas(s)

(***************************************************************************)
(* 4. Batch collection and processing                                      *)
(***************************************************************************)

\* #define BATCH_SIZE 16
BATCH_SIZE == 16

Min(a, b) == IF a < b THEN a ELSE b

\* The ready queue holds the tasks 1..n; no dispatcher has run.
BatchInit(n) ==
  /\ ready_queue = [i \in 1..n |-> i]
  /\ source = [i \in 1..n |-> i]
  /\ guard = 0
  /\ pcB = [d \in Dispatchers |-> "idle"]
  /\ batch = [d \in Dispatchers |-> <<>>]
  /\ entry = [d \in Dispatchers |-> <<>>]
  /\ idx = [d \in Dispatchers |-> 0]
  /\ executed = [d \in Dispatchers |-> <<>>]
  /\ sizes = <<>>

\* A loop bound that admits one task too many.
BatchHasRoomOffByOne(count) == count <= BATCH_SIZE

\* batch->count < BATCH_SIZE
BatchHasRoom(count) == count < BATCH_SIZE

\* collect_ready_tasks_batch: batch->count = 0 and Py_BEGIN_CRITICAL_SECTION,
\* which waits until the guard of the ready queue is free.
CollectEnter(d) ==
  /\ pcB[d] = "idle"
  /\ guard = 0
  /\ guard' = d
  /\ batch' = [batch EXCEPT ![d] = <<>>]
  /\ entry' = [entry EXCEPT ![d] = ready_queue]
  /\ pcB' = [pcB EXCEPT ![d] = "loop"]
  /\ UNCHANGED <<ready_queue, source, idx, executed, sizes>>
  /\ UNCHANGED otherThanBatch

\* One iteration of the while loop: queue_pop and batch->tasks[count++] = task.
CollectPop(d) ==
  /\ pcB[d] = "loop"
  /\ BatchHasRoom(Len(batch[d]))
  /\ ready_queue # <<>>
  /\ batch' = [batch EXCEPT ![d] = Append(@, Head(ready_queue))]
  /\ ready_queue' = Tail(ready_queue)
  /\ UNCHANGED <<source, guard, pcB, entry, idx, executed, sizes>>
  /\ UNCHANGED otherThanBatch

\* The loop ends: Py_END_CRITICAL_SECTION and return batch->count.
CollectLeave(d) ==
  /\ pcB[d] = "loop"
  /\ ~(BatchHasRoom(Len(batch[d])) /\ ready_queue # <<>>)
  /\ guard' = 0
  /\ sizes' = Append(sizes, Len(batch[d]))
  /\ pcB' = [pcB EXCEPT ![d] = "collected"]
  /\ UNCHANGED <<ready_queue, source, batch, entry, idx, executed>>
  /\ UNCHANGED otherThanBatch

\* process_task_batch: the contexts are allocated and prepared; a dispatcher
\* that collected nothing stops draining.
ProcessCall(d) ==
  /\ pcB[d] = "collected"
  /\ idx' = [idx EXCEPT ![d] = 0]
  /\ pcB' = [pcB EXCEPT ![d] = IF batch[d] = <<>> THEN "done" ELSE "exec"]
  /\ UNCHANGED <<ready_queue, source, guard, batch, entry, executed, sizes>>
  /\ UNCHANGED otherThanBatch

\* process_task_batch: PyMem_Malloc fails and the call returns -1 before any
\* task is executed.
ProcessNoMem(d) ==
  /\ pcB[d] = "collected"
  /\ batch[d] # <<>>
  /\ pcB' = [pcB EXCEPT ![d] = "idle"]
  /\ UNCHANGED <<ready_queue, source, guard, batch, entry, idx, executed, sizes>>
  /\ UNCHANGED otherThanBatch

\* execute_task(batch->tasks[i], contexts[i])
ExecTask(d) ==
  /\ pcB[d] = "exec"
  /\ idx[d] < Len(batch[d])
  /\ executed' = [executed EXCEPT ![d] = Append(@, batch[d][idx[d] + 1])]
  /\ idx' = [idx EXCEPT ![d] = @ + 1]
  /\ UNCHANGED <<ready_queue, source, guard, pcB, batch, entry, sizes>>
  /\ UNCHANGED otherThanBatch

\* process_task_batch: PyMem_Free(contexts); return 0.
ProcessReturn(d) ==
  /\ pcB[d] = "exec"
  /\ idx[d] = Len(batch[d])
  /\ pcB' = [pcB EXCEPT ![d] = "idle"]
  /\ UNCHANGED <<ready_queue, source, guard, batch, entry, idx, executed, sizes>>
  /\ UNCHANGED otherThanBatch

NextBatch ==
  \E d \in Dispatchers :
    \/ CollectEnter(d)
    \/ CollectPop(d)
    \/ CollectLeave(d)
    \/ ProcessCall(d)
    \/ ProcessNoMem(d)
    \/ ExecTask(d)
    \/ ProcessReturn(d)

(***************************************************************************)
(* 4b. AdaptiveFairMutex: update_fairness_timeout                          *)
(***************************************************************************)

\* The wait times passed to update_fairness_timeout, in microseconds.
Samples == {0, 1, 50, 100, 500, 1000, 4000, MaxSample}

FairInit ==
  /\ wait_time_avg = 0
  /\ fairness_timeout_us = 0
  /\ pcF = "idle"
  /\ old_avg = 0
  /\ new_avg = 0
  /\ wait_time_us = 0
  /\ updated = FALSE

\* update_fairness_timeout(mutex, wait_time_us) is called:
\* old_avg = atomic_load(&mutex->wait_time_avg).
FairLoad(x) ==
  /\ pcF = "idle"
  /\ wait_time_us' = x
  /\ old_avg' = wait_time_avg
  /\ pcF' = "f_avg"
  /\ UNCHANGED <<wait_time_avg, fairness_timeout_us, new_avg, updated>>
  /\ UNCHANGED otherThanFair

\* An average that weighs the sample like the old value.
MovingAverageHalf(old, x) == (old + x) \div 2

\* The exponential moving average: (old_avg * 7 + wait_time_us) / 8, on
\* non-negative values that stay within an int.
MovingAverage(old, x) == (old * 7 + x) \div 8

\* new_avg = (old_avg * 7 + wait_time_us) / 8;
\* atomic_store(&mutex->wait_time_avg, new_avg).
FairStoreAvg ==
  /\ pcF = "f_avg"
  /\ new_avg' = MovingAverage(old_avg, wait_time_us)
  /\ wait_time_avg' = MovingAverage(old_avg, wait_time_us)
  /\ pcF' = "f_timeout"
  /\ UNCHANGED <<fairness_timeout_us, old_avg, wait_time_us, updated>>
  /\ UNCHANGED otherThanFair

\* The three stores of fairness_timeout_us, by new_avg.
FairnessTimeout(avg) ==
  IF avg < 100 THEN 500
  ELSE IF avg < 1000 THEN 1000
  ELSE 2000

\* atomic_store(&mutex->fairness_timeout_us, ...) and return.
FairStoreTimeout ==
  /\ pcF = "f_timeout"
  /\ fairness_timeout_us' = FairnessTimeout(new_avg)
  /\ updated' = TRUE
  /\ pcF' = "idle"
  /\ UNCHANGED <<wait_time_avg, old_avg, new_avg, wait_time_us>>
  /\ UNCHANGED otherThanFair

NextFair ==
  \/ \E x \in Samples : FairLoad(x)
  \/ FairStoreAvg
  \/ FairStoreTimeout

(***************************************************************************)
(* 5. ParkingTable                                                         *)
(***************************************************************************)

\* The bucket of a lock identity: hash(lock_id) mod bucket_count.
BucketOf(l) == l % NUM_BUCKETS
\* The buckets some lock identity hashes to; the others stay empty.
Buckets == {BucketOf(l) : l \in LockIds}

\* The positions of the waiter records of lock l in a bucket's list.
Matching(list, l) == {i \in 1..Len(list) : list[i].lock = l}
\* The list without its i-th record.
RemoveAt(list, i) == SubSeq(list, 1, i - 1) \o SubSeq(list, i + 1, Len(list))
\* The list without the records of lock l.
Without(list, l) == SelectSeq(list, LAMBDA r : r.lock # l)
\* The threads of the records of lock l, in list order.
WaitersOf(list, l) ==
  LET m == SelectSeq(list, LAMBDA r : r.lock = l)
  IN [i \in 1..Len(m) |-> m[i].thread]
Max(S) == CHOOSE x \in S : \A y \in S : y <= x
Least(S) == CHOOSE x \in S : \A y \in S : x <= y

\* Thread t has a waiter record in some bucket.
InBucket(t) == \E b \in Buckets : \E i \in 1..Len(buckets[b]) : buckets[b][i].thread = t

ParkInit ==
  /\ buckets = [b \in Buckets |-> <<>>]
  /\ bguard = [b \in Buckets |-> 0]
  /\ woken = [t \in ParkThreads |-> FALSE]
  /\ flag = [l \in LockIds |-> TRUE]
  /\ pcP = [t \in ParkThreads |-> "idle"]
  /\ parg = [t \in ParkThreads |-> 0]
  /\ pall = [t \in ParkThreads |-> FALSE]
  /\ parks = 0
  /\ validated = [t \in ParkThreads |-> TRUE]
  /\ inserted = [l \in LockIds |-> <<>>]
  /\ resumed = [l \in LockIds |-> <<>>]
  /\ found = [t \in ParkThreads |-> FALSE]

\* The caller found that it should block on lock l and calls park(l, validate).
ParkCall(t, l) ==
  /\ pcP[t] = "idle"
  /\ parks < MaxParks
  /\ flag[l]
  /\ parks' = parks + 1
  /\ parg' = [parg EXCEPT ![t] = l]
  /\ pcP' = [pcP EXCEPT ![t] = "park_lock"]
  /\ UNCHANGED <<buckets, bguard, woken, flag, pall, validated, inserted, resumed, found>>
  /\ UNCHANGED otherThanPark

\* park and unpark: acquire the guard of the bucket.
BucketLock(t) ==
  /\ pcP[t] \in {"park_lock", "unpark_lock"}
  /\ bguard[BucketOf(parg[t])] = 0
  /\ bguard' = [bguard EXCEPT ![BucketOf(parg[t])] = t]
  /\ pcP' = [pcP EXCEPT ![t] = IF pcP[t] = "park_lock" THEN "park_enter" ELSE "unpark_remove"]
  /\ UNCHANGED <<buckets, woken, flag, parg, pall, parks, validated, inserted, resumed, found>>
  /\ UNCHANGED otherThanPark

\* A validate that is not evaluated again under the guard: the caller's
\* earlier check stands.
ValidateEarlier(t) == TRUE

\* validate, the caller's still-should-block predicate, evaluated while the
\* guard is held.
Validate(t) == flag[parg[t]]

\* park: re-check validate under the guard; if it still holds insert a waiter
\* record at the end of the list and block, else return; the guard is released.
ParkEnter(t) ==
  /\ pcP[t] = "park_enter"
  /\ validated' = [validated EXCEPT ![t] = flag[parg[t]]]
  /\ IF Validate(t)
       THEN /\ buckets' = [buckets EXCEPT ![BucketOf(parg[t])] =
                             Append(@, [thread |-> t, lock |-> parg[t]])]
            /\ inserted' = [inserted EXCEPT ![parg[t]] = Append(@, t)]
            /\ pcP' = [pcP EXCEPT ![t] = "parked"]
       ELSE /\ pcP' = [pcP EXCEPT ![t] = "idle"]
            /\ UNCHANGED <<buckets, inserted>>
  /\ bguard' = [bguard EXCEPT ![BucketOf(parg[t])] = 0]
  /\ UNCHANGED <<woken, flag, parg, pall, parks, resumed, found>>
  /\ UNCHANGED otherThanPark

\* The blocked thread runs again once an unpark has removed and resumed it.
ParkResume(t) ==
  /\ pcP[t] = "parked"
  /\ woken[t]
  /\ woken' = [woken EXCEPT ![t] = FALSE]
  /\ pcP' = [pcP EXCEPT ![t] = "idle"]
  /\ UNCHANGED <<buckets, bguard, flag, parg, pall, parks, validated, inserted, resumed, found>>
  /\ UNCHANGED otherThanPark

\* unpark_one(l) is called.
UnparkOneCall(t, l) ==
  /\ pcP[t] = "idle"
  /\ parg' = [parg EXCEPT ![t] = l]
  /\ pall' = [pall EXCEPT ![t] = FALSE]
  /\ pcP' = [pcP EXCEPT ![t] = "unpark_lock"]
  /\ UNCHANGED <<buckets, bguard, woken, flag, parks, validated, inserted, resumed, found>>
  /\ UNCHANGED otherThanPark

\* A waker ends the condition the waiters of l block on and calls unpark_all(l).
WakeAllCall(t, l) ==
  /\ pcP[t] = "idle"
  /\ flag[l]
  /\ flag' = [flag EXCEPT ![l] = FALSE]
  /\ parg' = [parg EXCEPT ![t] = l]
  /\ pall' = [pall EXCEPT ![t] = TRUE]
  /\ pcP' = [pcP EXCEPT ![t] = "unpark_lock"]
  /\ UNCHANGED <<buckets, bguard, woken, parks, validated, inserted, resumed, found>>
  /\ UNCHANGED otherThanPark

\* The condition of l holds again: later callers block on it.
Arm(t, l) ==
  /\ pcP[t] = "idle"
  /\ ~flag[l]
  /\ flag' = [flag EXCEPT ![l] = TRUE]
  /\ UNCHANGED <<buckets, bguard, woken, pcP, parg, pall, parks, validated, inserted, resumed, found>>
  /\ UNCHANGED otherThanPark

\* A choice of the latest-inserted matching waiter.
LastMatch(list, l) == Max(Matching(list, l))

\* The waiter unpark_one removes: the earliest-inserted matching one.
FirstMatch(list, l) == Least(Matching(list, l))

\* unpark_one / unpark_all under the guard: remove the earliest matching
\* waiter (or all matching waiters, in insertion order), release the guard
\* and resume what was removed; the result is whether a waiter was found.
UnparkRemove(t) ==
  /\ pcP[t] = "unpark_remove"
  /\ LET b == BucketOf(parg[t])
         list == buckets[b]
         l == parg[t]
         gone == IF Matching(list, l) = {} THEN <<>>
                 ELSE IF pall[t] THEN WaitersOf(list, l)
                 ELSE <<list[FirstMatch(list, l)].thread>>
         left == IF Matching(list, l) = {} THEN list
                 ELSE IF pall[t] THEN Without(list, l)
                 ELSE RemoveAt(list, FirstMatch(list, l))
     IN /\ buckets' = [buckets EXCEPT ![b] = left]
        /\ woken' = [w \in ParkThreads |-> woken[w] \/ \E i \in 1..Len(gone) : gone[i] = w]
        /\ resumed' = [resumed EXCEPT ![l] = @ \o gone]
        /\ found' = [found EXCEPT ![t] = gone # <<>>]
        /\ bguard' = [bguard EXCEPT ![b] = 0]
  /\ pcP' = [pcP EXCEPT ![t] = "idle"]
  /\ UNCHANGED <<flag, parg, pall, parks, validated, inserted>>
  /\ UNCHANGED otherThanPark

NextPark ==
  \/ \E t \in Parkers :
       \/ \E l \in LockIds : ParkCall(t, l)
       \/ ParkEnter(t)
       \/ ParkResume(t)
  \/ \E t \in Wakers :
       \/ \E l \in LockIds : UnparkOneCall(t, l)
       \/ \E l \in LockIds : WakeAllCall(t, l)
       \/ \E l \in LockIds : Arm(t, l)
       \/ UnparkRemove(t)
  \/ \E t \in ParkThreads : BucketLock(t)

(***************************************************************************)
(* 6. AdaptiveMutex on the ParkingTable, with a deadline                   *)
(***************************************************************************)

\* The lock word's flag bits, and their tests on a value of the word.
LOCKED == 1
HAS_PARKED == 2
IsLocked(w) == w % 2 = 1
HasParked(w) == w \div 2 = 1

\* The mutex parks under its own identity, the second of the table's.
MutexId == 1 + NUM_BUCKETS
MBucket == BucketOf(MutexId)

\* Thread t has a waiter record of the mutex.
MWaiting(t) == \E i \in 1..Len(buckets[MBucket]) :
                 buckets[MBucket][i] = [thread |-> t, lock |-> MutexId]

MutexInit ==
  /\ word = 0
  /\ pcM = [t \in MThreads |-> "idle"]
  /\ mv = [t \in MThreads |-> 0]
  /\ spun = [t \in MThreads |-> FALSE]
  /\ recent = [t \in MThreads |-> 0]
  /\ timed = [t \in MThreads |-> FALSE]
  /\ mret = [t \in MThreads |-> "none"]

\* _PyMutex_LockTimed returns r: its locals v, spin_count and timeout end.
Return(t, r, pc) ==
  /\ mret' = [mret EXCEPT ![t] = r]
  /\ pcM' = [pcM EXCEPT ![t] = pc]
  /\ mv' = [mv EXCEPT ![t] = 0]
  /\ spun' = [spun EXCEPT ![t] = FALSE]
  /\ timed' = [timed EXCEPT ![t] = FALSE]

\* _PyMutex_LockTimed is called, with a deadline (d) or without: load the word.
MCall(t, d) ==
  /\ pcM[t] = "idle"
  /\ mv' = [mv EXCEPT ![t] = word]
  /\ timed' = [timed EXCEPT ![t] = d]
  /\ mret' = [mret EXCEPT ![t] = "none"]
  /\ spun' = [spun EXCEPT ![t] = FALSE]
  /\ pcM' = [pcM EXCEPT ![t] = "m_fast"]
  /\ UNCHANGED <<word, recent>>
  /\ UNCHANGED tableVars
  /\ UNCHANGED otherThanMutex

\* The first attempt: when the loaded word is not locked, compare-and-swap
\* it to locked; on success the thread's contention estimate decays.
MFast(t) ==
  /\ pcM[t] = "m_fast"
  /\ IF ~IsLocked(mv[t]) /\ word = mv[t]
       THEN /\ word' = mv[t] + LOCKED
            /\ recent' = [recent EXCEPT ![t] = IF @ > 0 THEN @ - 1 ELSE @]
            /\ Return(t, "Acquired", "m_held")
       ELSE /\ mv' = [mv EXCEPT ![t] = word]
            /\ pcM' = [pcM EXCEPT ![t] = "m_loop"]
            /\ UNCHANGED <<word, recent, mret, spun, timed>>
  /\ UNCHANGED tableVars
  /\ UNCHANGED otherThanMutex

\* One pass of the loop on an unlocked word: compare-and-swap it to locked;
\* a failed compare-and-swap reloads the word and the loop continues.
MLoopCas(t) ==
  /\ pcM[t] = "m_loop"
  /\ ~IsLocked(mv[t])
  /\ IF word = mv[t]
       THEN /\ word' = mv[t] + LOCKED
            /\ Return(t, "Acquired", "m_held")
       ELSE /\ mv' = [mv EXCEPT ![t] = word]
            /\ UNCHANGED <<word, mret, pcM, spun, timed>>
  /\ UNCHANGED recent
  /\ UNCHANGED tableVars
  /\ UNCHANGED otherThanMutex

\* The passes of the loop on a locked word without HAS_PARKED: yield and
\* count, max_spin times; they touch nothing shared and are taken as one
\* step, after which the budget is spent.
MSpin(t) ==
  /\ pcM[t] = "m_loop"
  /\ IsLocked(mv[t])
  /\ ~HasParked(mv[t])
  /\ ~spun[t]
  /\ spun' = [spun EXCEPT ![t] = TRUE]
  /\ UNCHANGED <<word, pcM, mv, recent, timed, mret>>
  /\ UNCHANGED tableVars
  /\ UNCHANGED otherThanMutex

\* Past the spin on a locked word: a thread that spent its budget raises its
\* contention estimate; then the word is marked HAS_PARKED, by a
\* compare-and-swap whose failure reloads the word and continues the loop.
MMark(t) ==
  /\ pcM[t] = "m_loop"
  /\ IsLocked(mv[t])
  /\ HasParked(mv[t]) \/ spun[t]
  /\ spun[t] => recent[t] < MaxContention
  /\ recent' = [recent EXCEPT ![t] = IF spun[t] THEN @ + 1 ELSE @]
  /\ IF HasParked(mv[t])
       THEN /\ pcM' = [pcM EXCEPT ![t] = "m_park_lock"]
            /\ UNCHANGED <<word, mv>>
       ELSE IF word = mv[t]
         THEN /\ word' = mv[t] + HAS_PARKED
              /\ mv' = [mv EXCEPT ![t] = mv[t] + HAS_PARKED]
              /\ pcM' = [pcM EXCEPT ![t] = "m_park_lock"]
         ELSE /\ mv' = [mv EXCEPT ![t] = word]
              /\ UNCHANGED <<word, pcM>>
  /\ UNCHANGED <<spun, timed, mret>>
  /\ UNCHANGED tableVars
  /\ UNCHANGED otherThanMutex

\* park and release's unpark_one: acquire the guard of the mutex's bucket.
MBucketLock(t) ==
  /\ pcM[t] \in {"m_park_lock", "m_unpark_lock"}
  /\ bguard[MBucket] = 0
  /\ bguard' = [bguard EXCEPT ![MBucket] = t]
  /\ pcM' = [pcM EXCEPT ![t] = IF pcM[t] = "m_park_lock" THEN "m_park_enter" ELSE "m_unpark_remove"]
  /\ UNCHANGED <<word, mv, spun, recent, timed, mret, buckets, woken>>
  /\ UNCHANGED otherThanMutex

\* The validate of acquire: the lock is still held.
MValidate == IsLocked(word)

\* park, under the guard: insert a waiter record and block when validate
\* holds, else go round the loop again with the word reloaded.
MParkEnter(t) ==
  /\ pcM[t] = "m_park_enter"
  /\ IF MValidate
       THEN /\ buckets' = [buckets EXCEPT ![MBucket] =
                             Append(@, [thread |-> t, lock |-> MutexId])]
            /\ pcM' = [pcM EXCEPT ![t] = "m_parked"]
            /\ UNCHANGED mv
       ELSE /\ mv' = [mv EXCEPT ![t] = word]
            /\ pcM' = [pcM EXCEPT ![t] = "m_loop"]
            /\ UNCHANGED buckets
  /\ bguard' = [bguard EXCEPT ![MBucket] = 0]
  /\ UNCHANGED <<word, spun, recent, timed, mret, woken>>
  /\ UNCHANGED otherThanMutex

\* A parked thread that an unpark_one removed runs again: reload the word
\* and retry.
MResume(t) ==
  /\ pcM[t] = "m_parked"
  /\ woken[t]
  /\ woken' = [woken EXCEPT ![t] = FALSE]
  /\ mv' = [mv EXCEPT ![t] = word]
  /\ pcM' = [pcM EXCEPT ![t] = "m_loop"]
  /\ UNCHANGED <<word, spun, recent, timed, mret, buckets, bguard>>
  /\ UNCHANGED otherThanMutex

\* A timeout that leaves the waiter record where it is.
UnlinkLater(list, t) == list

\* The list without the waiter record of thread t.
Unlink(list, t) == SelectSeq(list, LAMBDA r : r.thread # t)

\* A removal that clears HAS_PARKED whatever is left in the list.
WordAfterRemovalOfAny(w, left) == IF HasParked(w) THEN w - HAS_PARKED ELSE w

\* The lock word after a waiter was removed under the guard: HAS_PARKED is
\* cleared once no waiter of the mutex is left in the list.
WordAfterRemoval(w, left) ==
  IF Matching(left, MutexId) = {} /\ HasParked(w) THEN w - HAS_PARKED ELSE w

\* The deadline of a parked thread expires: under the guard of the bucket, a
\* thread still in the list removes its record, HAS_PARKED is cleared when
\* that was the last waiter, and acquire returns TimedOut; a thread that an
\* unpark_one has removed already is resumed by it (MResume) and does not
\* time out.
MTimeout(t) ==
  /\ pcM[t] = "m_parked"
  /\ timed[t]
  /\ bguard[MBucket] = 0
  /\ MWaiting(t)
  /\ buckets' = [buckets EXCEPT ![MBucket] = Unlink(@, t)]
  /\ word' = WordAfterRemoval(word, Unlink(buckets[MBucket], t))
  /\ Return(t, "TimedOut", "idle")
  /\ UNCHANGED <<recent, bguard, woken>>
  /\ UNCHANGED otherThanMutex

\* The lock word of a mutex nobody holds and nobody waits for.
Unlocked == 0

\* A try_acquire that takes any word without LOCKED for unlocked.
TryCasOkLoose(w) == ~IsLocked(w)

\* try_acquire's compare-and-swap succeeds on the Unlocked word only.
TryCasOk(w) == w = Unlocked

\* try_acquire: one compare-and-swap from Unlocked to Locked; it returns
\* Acquired or WouldBlock at once.
MTryAcquire(t) ==
  /\ pcM[t] = "idle"
  /\ IF TryCasOk(word)
       THEN /\ word' = LOCKED
            /\ Return(t, "Acquired", "m_held")
       ELSE /\ Return(t, "WouldBlock", "idle")
            /\ UNCHANGED word
  /\ UNCHANGED recent
  /\ UNCHANGED tableVars
  /\ UNCHANGED otherThanMutex

\* release: atomically clear LOCKED; when HAS_PARKED was set, go on to
\* unpark_one.
MRelease(t) ==
  /\ pcM[t] = "m_held"
  /\ word' = word - LOCKED
  /\ pcM' = [pcM EXCEPT ![t] = IF HasParked(word) THEN "m_unpark_lock" ELSE "idle"]
  /\ UNCHANGED <<mv, spun, recent, timed, mret>>
  /\ UNCHANGED tableVars
  /\ UNCHANGED otherThanMutex

\* release's unpark_one, under the guard: remove and resume the earliest
\* waiter of the mutex, and clear HAS_PARKED when no waiter of the mutex
\* remains after the removal.
MUnparkRemove(t) ==
  /\ pcM[t] = "m_unpark_remove"
  /\ LET list == buckets[MBucket]
         some == Matching(list, MutexId) # {}
         left == IF some THEN RemoveAt(list, FirstMatch(list, MutexId)) ELSE list
     IN /\ buckets' = [buckets EXCEPT ![MBucket] = left]
        /\ woken' = IF some
                      THEN [woken EXCEPT ![list[FirstMatch(list, MutexId)].thread] = TRUE]
                      ELSE woken
        /\ word' = WordAfterRemoval(word, left)
  /\ bguard' = [bguard EXCEPT ![MBucket] = 0]
  /\ pcM' = [pcM EXCEPT ![t] = "idle"]
  /\ UNCHANGED <<mv, spun, recent, timed, mret>>
  /\ UNCHANGED otherThanMutex

NextMutex ==
  \E t \in MThreads :
    \/ \E d \in BOOLEAN : MCall(t, d)
    \/ MFast(t)
    \/ MLoopCas(t)
    \/ MSpin(t)
    \/ MMark(t)
    \/ MBucketLock(t)
    \/ MParkEnter(t)
    \/ MResume(t)
    \/ MTimeout(t)
    \/ MRelease(t)
    \/ MUnparkRemove(t)
    \/ MTryAcquire(t)

(***************************************************************************)
(* Specifications                                                          *)
(***************************************************************************)

\* A work-stealing queue nobody calls.
DequeIdle == DequeInit([push |-> 0, pop |-> 0, steal |-> 0, calls |-> 0])

InitLock == LockInit /\ QueueInit /\ DequeIdle /\ BatchInit(0) /\ ParkInit /\ MutexInit /\ FairInit

SpecLock == InitLock /\ [][NextLock]_vars

\* Fair scheduling: a thread inside acquire, or holding the lock, keeps taking
\* steps (so every holder releases); a strong compare-and-swap never fails
\* when the lock word is 0.
SpecLockFair ==
  /\ InitLock
  /\ [][NextLockLoop]_vars
  /\ \A t \in Threads : WF_vars(Running(t))

\* A lock whose contention_count has reached any value up to MaxEstimate.
InitSpin ==
  /\ QueueInit /\ DequeIdle /\ BatchInit(0) /\ ParkInit /\ MutexInit /\ FairInit
  /\ \E c \in 0..MaxEstimate : LockInitAt(c)

SpecSpin == InitSpin /\ [][NextSpin]_vars

InitQueue == LockInit /\ QueueInit /\ DequeIdle /\ BatchInit(0) /\ ParkInit /\ MutexInit /\ FairInit

SpecQueue == InitQueue /\ [][NextQueue]_vars

\* The queue under enqueuers only.
SpecEnq == InitQueue /\ [][NextEnq]_vars

\* Every producer but the stalling ones keeps taking the steps of its call.
SpecQueueFair ==
  InitQueue /\ [][NextQueue]_vars /\ \A p \in Producers \ Stalling : WF_vars(EnqStep(p))

InitDeque ==
  LockInit /\ QueueInit /\ BatchInit(0) /\ ParkInit /\ MutexInit /\ FairInit /\ DequeInit([push |-> MaxPush, pop |-> MaxPop, steal |-> MaxSteal,
                                          calls |-> MaxPush + MaxPop + Cardinality(Stealers) * MaxSteal])

SpecDeque == InitDeque /\ [][NextDeque]_vars

InitDequeSeq ==
  LockInit /\ QueueInit /\ BatchInit(0) /\ ParkInit /\ MutexInit /\ FairInit /\ DequeInit([push |-> SeqCalls, pop |-> SeqCalls, steal |-> SeqCalls,
                                          calls |-> SeqCalls])

SpecDequeSeq == InitDequeSeq /\ [][NextDequeSeq]_vars

InitBatch == LockInit /\ QueueInit /\ DequeIdle /\ ParkInit /\ MutexInit /\ FairInit /\ \E n \in 0..MaxReady : BatchInit(n)

SpecBatch == InitBatch /\ [][NextBatch]_vars

InitPark == LockInit /\ QueueInit /\ DequeIdle /\ BatchInit(0) /\ ParkInit /\ MutexInit /\ FairInit

SpecPark == InitPark /\ [][NextPark]_vars

InitMutex == LockInit /\ QueueInit /\ DequeIdle /\ BatchInit(0) /\ ParkInit /\ MutexInit /\ FairInit

SpecMutex == InitMutex /\ [][NextMutex]_vars

InitFair == LockInit /\ QueueInit /\ DequeIdle /\ BatchInit(0) /\ ParkInit /\ MutexInit /\ FairInit

SpecFair == InitFair /\ [][NextFair]_vars

\* Threads between a successful acquire and the matching release.
Holders == {t \in Threads : pcL[t] \in {"load_cc", "sub_cc", "cs_read", "cs_write", "release"}}

AllDone == \A t \in Threads : pcL[t] = "idle" /\ iters[t] = MaxIters

\* C1: at most one thread is between a successful acquire and its release,
\* and once every thread has done its MaxIters iterations the shared counter
\* equals NThreads * MaxIters.
C1_MutualExclusion ==
  /\ Cardinality(Holders) <= 1
  /\ (lock = 0 => Holders = {})
  /\ (AllDone => counter = NThreads * MaxIters)

C1_Witness == AllDone /\ counter = NThreads * MaxIters /\ contention_count > 0

\* C2: under fair scheduling every thread that has called acquire eventually
\* returns holding the lock, even when the other threads keep acquiring and
\* releasing it.
C2_StarvationFree ==
  \A t \in Threads :
    (pcL[t] \in {"get_spin", "cas", "inc_cc"}) ~> (pcL[t] \in {"load_cc", "sub_cc", "cs_read"})

Range(s) == {s[i] : i \in 1..Len(s)}
NoDup(s) == \A i, j \in 1..Len(s) : i # j => s[i] # s[j]
IsPrefix(a, b) == Len(a) <= Len(b) /\ \A i \in 1..Len(a) : a[i] = b[i]
\* The values of producer p among the dequeued ones, in dequeue order.
DequeuedOf(p) == SelectSeq(dequeued, LAMBDA v : ProducerOf(v) = p)

\* Every call of every producer has returned, no dequeue is in flight and
\* nothing is linked after the sentinel.
Drained ==
  /\ \A p \in Producers : pcQ[p] = "idle" /\ calls[p] = MaxEnq
  /\ \A c \in Consumers : pcD[c] = "idle"
  /\ next[head] = NULL

\* C4: the dequeued values hold no duplicate and nothing that was not
\* enqueued, each producer's values come out in that producer's enqueue
\* order, and a drained queue has given out every enqueued value.
C4_QueueOrder ==
  /\ NoDup(dequeued)
  /\ \A p \in Producers : IsPrefix(DequeuedOf(p), enqueued[p])
  /\ Range(dequeued) \subseteq UNION {Range(enqueued[p]) : p \in Producers}
  /\ Drained => \A p \in Producers : DequeuedOf(p) = enqueued[p]

C4_Witness ==
  /\ Drained
  /\ Len(dequeued) = Cardinality(Producers) * MaxEnq
  /\ ProducerOf(dequeued[1]) = 2
  /\ ProducerOf(dequeued[2]) = 1

\* The items pushed successfully and the items pop and steal returned, in
\* the order the calls completed.
PushedLog == SelectSeq(log, LAMBDA e : e.op = "push" /\ e.ret = 0)
RemovedLog == SelectSeq(log, LAMBDA e : e.op # "push" /\ e.ret # None)
PushedItems == {PushedLog[i].val : i \in 1..Len(PushedLog)}
RemovedItems == {RemovedLog[i].ret : i \in 1..Len(RemovedLog)}

\* C5: no item is removed twice, nothing is removed that was not pushed, and
\* an empty queue with no call in flight has given out exactly the items
\* pushed.
C5_Conservation ==
  /\ \A i, j \in 1..Len(RemovedLog) : i # j => RemovedLog[i].ret # RemovedLog[j].ret
  /\ RemovedItems \subseteq PushedItems
  /\ (DequeQuiet /\ top >= bottom) => Len(RemovedLog) = Len(PushedLog)

C5_Witness ==
  /\ DequeQuiet
  /\ top >= bottom
  /\ Len(PushedLog) = MaxPush
  /\ \E i \in 1..Len(log) : log[i].op = "pop" /\ log[i].ret # None
  /\ \E i \in 1..Len(log) : log[i].op = "steal" /\ log[i].ret # None

\* The first n calls of the log are successful pushes and the others are
\* all calls of op.
PushesThen(n, op) ==
  /\ \A i \in 1..n : log[i].op = "push" /\ log[i].ret = 0
  /\ \A i \in (n + 1)..Len(log) : log[i].op = op

\* C6: in a single-threaded run, after n pushes into the empty queue the
\* pops return the n items in reverse push order and then none; steals
\* return them in push order and then none.
C6_RoundTrip ==
  \A n \in 0..Len(log) :
    /\ PushesThen(n, "pop") =>
         \A j \in 1..(Len(log) - n) :
           log[n + j].ret = IF j <= n THEN log[n + 1 - j].val ELSE None
    /\ PushesThen(n, "steal") =>
         \A j \in 1..(Len(log) - n) :
           log[n + j].ret = IF j <= n THEN log[j].val ELSE None

C6_Witness ==
  /\ Len(log) = 2 * Capacity + 1
  /\ PushesThen(Capacity, "pop")
  /\ log[Len(log)].ret = None
  /\ log[Capacity + 1].ret = log[Capacity].val

\* C10 as stated: ws_push succeeds exactly when bottom - top < capacity at
\* the moment it is called.
C10_FullAtCall == (lastPush.ret # Full) <=> (lastPush.atCall < Capacity)

\* C10: ws_push succeeds exactly when bottom - top < capacity for the bottom
\* it loaded and the top it loads after it; it succeeds whenever the queue is
\* not full at the call; a rejected push leaves bottom and every slot as
\* they were at the call, and the rejected item is never returned.
C10_PushFull ==
  /\ (lastPush.ret # Full) <=> (lastPush.atCheck < Capacity)
  /\ lastPush.atCall < Capacity => lastPush.ret # Full
  /\ lastPush.ret = Full => lastPush.frame
  /\ \A i \in 1..Len(log) :
       (log[i].op = "push" /\ log[i].ret = Full) => log[i].val \notin RemovedItems
  /\ bottom - top <= Capacity

C10_Witness ==
  /\ DequeQuiet
  /\ top >= bottom
  /\ \E i \in 1..Len(log) : log[i].op = "push" /\ log[i].ret = Full
  /\ Len(RemovedLog) = Capacity

RECURSIVE SumTo(_, _)
SumTo(s, n) == IF n = 0 THEN 0 ELSE s[n] + SumTo(s, n - 1)

\* Every dispatcher has drained the source: its last collect returned 0.
AllDrained == \A d \in Dispatchers : pcB[d] = "done"

\* C7: a batch never holds more than BATCH_SIZE tasks; while a collect runs
\* the tasks it has popped followed by the ready queue are the queue it
\* found; it returns the first min(n, BATCH_SIZE) of them; successive
\* collects return min(what is left, BATCH_SIZE), so a drained source of n
\* tasks gave ceil(n / BATCH_SIZE) non-empty batches.
C7_BatchBound ==
  /\ \A d \in Dispatchers :
       /\ Len(batch[d]) <= BATCH_SIZE
       /\ pcB[d] = "loop" => entry[d] = batch[d] \o ready_queue
       /\ pcB[d] = "collected" =>
            batch[d] = SubSeq(entry[d], 1, Min(Len(entry[d]), BATCH_SIZE))
  /\ \A i \in 1..Len(sizes) :
       sizes[i] = Min(Len(source) - SumTo(sizes, i - 1), BATCH_SIZE)
  /\ AllDrained =>
       /\ SumTo(sizes, Len(sizes)) = Len(source)
       /\ Len(SelectSeq(sizes, LAMBDA k : k > 0)) = (Len(source) + BATCH_SIZE - 1) \div BATCH_SIZE

C7_Witness ==
  /\ AllDrained
  /\ Len(source) = 50
  /\ SelectSeq(sizes, LAMBDA k : k > 0) = <<16, 16, 16, 2>>
(***************************************************************************)
(* ParkingTable                                                            *)
(***************************************************************************)

\* A waker of lock l has ended the condition and its unpark_all is under way.
WakePending(l) ==
  \E u \in Wakers : pcP[u] \in {"unpark_lock", "unpark_remove"} /\ pall[u] /\ parg[u] = l

\* C3: no lost wakeup.  A thread has a waiter record exactly when validate
\* held under the guard of its park, and one whose validate was false under
\* the guard has returned without a record; a blocked thread is either still
\* in its bucket or has been resumed by the unpark that removed it; and no
\* waiter stays in a bucket once the condition it blocks on has ended, unless
\* the waker's unpark_all is still under way.
C3_NoLostWakeup ==
  /\ \A t \in Parkers :
       /\ InBucket(t) => pcP[t] = "parked" /\ validated[t]
       /\ ~validated[t] => pcP[t] # "parked" /\ ~InBucket(t)
       /\ pcP[t] = "parked" => (InBucket(t) # woken[t])
       /\ woken[t] => pcP[t] = "parked"
  /\ \A b \in Buckets : \A i \in 1..Len(buckets[b]) :
       flag[buckets[b][i].lock] \/ WakePending(buckets[b][i].lock)

\* One thread was inserted and has been resumed by an unpark, and another
\* found validate false under the guard and returned without blocking.
C3_Witness ==
  \E t, u \in Parkers :
    /\ t # u
    /\ \E l \in LockIds : \E i \in 1..Len(resumed[l]) : resumed[l][i] = t
    /\ pcP[t] = "idle" /\ ~woken[t]
    /\ pcP[u] = "idle" /\ ~validated[u]

\* The records of a list that are not of lock l.
OtherWaiters(list, l) == SelectSeq(list, LAMBDA r : r.lock # l)
\* What is left of a sequence after its first n elements.
Drop(s, n) == SubSeq(s, n + 1, Len(s))

\* The step of an unpark_one of thread t under the guard.
UnparkOneStep(t) == pcP[t] = "unpark_remove" /\ ~pall[t] /\ pcP'[t] = "idle"

\* C8: FIFO wakeup per lock.  For every lock identity the threads resumed so
\* far are the first of those inserted, in insertion order, and the ones still
\* waiting are the rest in that order; each unpark_one(l) removes and resumes
\* the earliest waiter of l, leaves the records of other lock identities in
\* the bucket as they were, and returns true iff a waiter of l existed.
C8_FifoWakeup ==
  /\ [](\A l \in LockIds :
          /\ IsPrefix(resumed[l], inserted[l])
          /\ WaitersOf(buckets[BucketOf(l)], l) = Drop(inserted[l], Len(resumed[l])))
  /\ [][\A t \in Wakers : UnparkOneStep(t) =>
          LET l == parg[t]
              was == buckets[BucketOf(l)]
              now == buckets'[BucketOf(l)]
          IN /\ found'[t] <=> (Matching(was, l) # {})
             /\ OtherWaiters(now, l) = OtherWaiters(was, l)
             /\ \A i \in 1..Len(now) : \E j \in 1..Len(was) : now[i] = was[j]
             /\ Matching(was, l) = {} => now = was /\ woken' = woken
             /\ Matching(was, l) # {} =>
                  /\ WaitersOf(now, l) = Tail(WaitersOf(was, l))
                  /\ woken' = [woken EXCEPT ![Head(WaitersOf(was, l))] = TRUE]]_vars

\* Two waiters of one lock identity were inserted around a waiter of the
\* other one in the same bucket, and unpark_one has resumed both in their
\* order of insertion while the other lock's waiter still waits.
C8_Witness ==
  \E l, k \in LockIds :
    /\ l # k
    /\ BucketOf(l) = BucketOf(k)
    /\ Len(inserted[l]) = 2 /\ resumed[l] = inserted[l]
    /\ inserted[l][1] # inserted[l][2]
    /\ Len(inserted[k]) = 1 /\ resumed[k] = <<>>
    /\ buckets[BucketOf(k)] = <<[thread |-> inserted[k][1], lock |-> k]>>
    /\ flag[l] /\ flag[k]
    /\ \E t \in Wakers : pcP[t] = "idle" /\ found[t] /\ ~pall[t] /\ parg[t] = l

(***************************************************************************)
(* AdaptiveMutex: acquire with a deadline                                  *)
(***************************************************************************)

\* The step at which the acquire of thread t returns TimedOut.
TimesOut(t) == mret[t] # "TimedOut" /\ mret'[t] = "TimedOut"

\* C9: timed acquire.  An acquire returns TimedOut only from a parked thread
\* with a deadline; the step removes the thread's waiter record, leaves the
\* LOCKED bit as it was and ends the call without the lock.  Every waiter
\* record of the mutex therefore belongs to a thread that is still parked, so
\* a thread that has returned has no record in any bucket and no unpark_one
\* resumes it.
C9_TimedAcquire ==
  /\ [](\A t \in MThreads :
          /\ MWaiting(t) => pcM[t] = "m_parked"
          /\ woken[t] => pcM[t] = "m_parked" /\ ~MWaiting(t)
          /\ (mret[t] = "TimedOut" /\ pcM[t] = "idle") => ~InBucket(t) /\ ~woken[t])
  /\ [][\A t \in MThreads : TimesOut(t) =>
          /\ pcM[t] = "m_parked" /\ timed[t] /\ MWaiting(t)
          /\ pcM'[t] = "idle"
          /\ ~InBucket(t)'
          /\ IsLocked(word') = IsLocked(word)
          /\ \A u \in MThreads \ {t} : MWaiting(u)' = MWaiting(u)]_vars

\* A thread has timed out and returned; after that another thread's release
\* is at its unpark_one, under the guard, and the one waiter it finds is a
\* third thread.
C9_Witness ==
  \E t, u, r \in MThreads :
    /\ mret[t] = "TimedOut" /\ pcM[t] = "idle"
    /\ pcM[r] = "m_unpark_remove"
    /\ u # t
    /\ buckets[MBucket] = <<[thread |-> u, lock |-> MutexId]>>

\* The step of a try_acquire of thread t: the only one that returns
\* WouldBlock, and the only one that takes an idle thread to the lock.
TryStep(t) ==
  /\ pcM[t] = "idle"
  /\ pcM'[t] = "m_held" \/ (mret'[t] = "WouldBlock" /\ mret[t] # "WouldBlock")

Parking(t) == pcM[t] \in {"m_park_lock", "m_park_enter"}
\* A release that found HAS_PARKED set is on its way to unpark_one.
Unparking(t) == pcM[t] \in {"m_unpark_lock", "m_unpark_remove"}
NoWaiter == Matching(buckets[MBucket], MutexId) = {}

C13_HelpingProgress ==
  \A p \in Producers \ Stalling : (pcQ[p] # "idle") ~> (pcQ[p] = "idle")

\* A stalling producer has linked its node and not advanced the tail; another
\* producer has linked its own node behind that node and has returned.
C13_Witness ==
  \E s \in Stalling : \E p \in Producers \ Stalling :
    /\ pcQ[s] = "swing"
    /\ next[node[s]] # NULL
    /\ ProducerOf(task[next[node[s]]]) = p
    /\ pcQ[p] = "idle"

(***************************************************************************)
(* WorkStealingDeque: indices                                              *)
(***************************************************************************)

\* A pop has published bottom - 1 and not yet returned.
PopInFlight == pcO \in {"pop_top", "pop_cas", "pop_won", "pop_lost"}

LastRet == log'[Len(log')].ret

\* C16: a steal is one bounded try.  With the top it loaded >= the bottom it
\* loads it returns none and changes nothing.  Otherwise it attempts one
\* compare-and-swap of top and returns after it, whether it succeeded or not:
\* on success (top still the loaded one) the result is the item in slot
\* top mod capacity and top is top + 1; on failure the result is none and
\* top, bottom and every slot are as they were.
C16_StealOnce ==
  [][\A s \in Stealers :
       /\ (pcS[s] = "s_bottom" /\ pcS'[s] # "s_bottom" /\ st[s] >= bottom) =>
             /\ pcS'[s] = "idle" /\ LastRet = None
             /\ top' = top /\ bottom' = bottom /\ tasks' = tasks
       /\ (pcS[s] = "s_bottom" /\ pcS'[s] # "s_bottom" /\ st[s] < bottom) =>
             pcS'[s] = "s_read" /\ log' = log
       /\ (pcS[s] = "s_cas" /\ pcS'[s] # "s_cas") =>
             /\ pcS'[s] = "idle"
             /\ Len(log') = Len(log) + 1
             /\ bottom' = bottom /\ tasks' = tasks
             /\ IF top = st[s]
                  THEN LastRet = tasks[top % Capacity] /\ LastRet # None /\ top' = top + 1
                  ELSE LastRet = None /\ top' = top]_vars

\* Every stealer that has called found the queue non-empty and has returned,
\* one with an item and, last, one with none: its compare-and-swap failed and
\* it did not try again.
C16_Witness ==
  /\ Len(log) > 0
  /\ log[Len(log)] = [op |-> "steal", val |-> None, ret |-> None]
  /\ \E i \in 1..Len(log) : log[i].op = "steal" /\ log[i].ret # None
  /\ \A s \in Stealers : pcS[s] = "idle" /\ steals[s] > 0 /\ st[s] < sb[s]

(***************************************************************************)
(* AdaptiveSpinLock: the spin budget and the contention counter            *)
(***************************************************************************)

\* The three tiers, stated on their own.
Tier(c) == IF c < 10 THEN 20 ELSE IF c < 100 THEN 40 ELSE 60

\* C17: the adaptive spin budget.  The budget of an acquisition is set once,
\* from the contention_count read at its start, to 20 below 10, 40 below 100
\* and 60 from 100 on, and a larger contention_count never gives a smaller
\* budget; inside the acquisition the budget stays as it is.  The acquirer
\* pauses after at most max_spin failed attempts in a row; the failed attempt
\* after those takes it to the rise of contention_count and the yield, which
\* start the count again.
C17_SpinBudget ==
  /\ [](/\ Tier(contention_count) <= Tier(contention_count + 1)
        /\ \A t \in Spinners :
              /\ pcL[t] = "cas" => max_spin[t] \in {20, 40, 60} /\ spin_count[t] <= max_spin[t]
              /\ pcL[t] = "inc_cc" => spin_count[t] = max_spin[t] + 1)
  /\ [][\A t \in Spinners :
          /\ pcL[t] = "get_spin" /\ pcL'[t] # "get_spin" =>
                max_spin'[t] = Tier(contention_count)
          /\ pcL[t] \in {"cas", "inc_cc"} => max_spin'[t] = max_spin[t]
          /\ pcL[t] = "inc_cc" /\ pcL'[t] # "inc_cc" =>
                /\ contention_count' = contention_count + 1
                /\ spin_count'[t] = 0 /\ pcL'[t] = "cas"]_vars

\* An acquisition that started at a contention_count of 100 has failed 61
\* times in a row; contention_count has risen meanwhile and is raised next.
C17_Witness ==
  \E t \in Spinners :
    /\ pcL[t] = "inc_cc"
    /\ max_spin[t] = 60
    /\ spin_count[t] = 61
    /\ cc0 = 100
    /\ contention_count > cc0

(***************************************************************************)
(* AdaptiveFairMutex: the fairness timeout                                 *)
(***************************************************************************)

\* C18: the fairness-timeout clamp.  After every call of
\* update_fairness_timeout in a sequence of calls with non-negative samples,
\* fairness_timeout_us is 500 for a stored average below 100, 1000 for one
\* below 1000 and 2000 otherwise, hence within [500, 2000] and never smaller
\* for a larger average; each call stores (7 * old + sample) / 8, rounded
\* down, as the new average.
C18_FairnessClamp ==
  /\ []((pcF = "idle" /\ updated) =>
          /\ fairness_timeout_us \in {500, 1000, 2000}
          /\ wait_time_avg < 100 => fairness_timeout_us = 500
          /\ (wait_time_avg >= 100 /\ wait_time_avg < 1000) => fairness_timeout_us = 1000
          /\ wait_time_avg >= 1000 => fairness_timeout_us = 2000
          /\ wait_time_avg >= 0)
  /\ [](FairnessTimeout(wait_time_avg) <= FairnessTimeout(wait_time_avg + 1))
  /\ [][(pcF = "f_avg" /\ pcF' # "f_avg") =>
          /\ 8 * wait_time_avg' <= 7 * wait_time_avg + wait_time_us
          /\ 7 * wait_time_avg + wait_time_us < 8 * wait_time_avg' + 8]_vars

\* A call that found an average between 100 and 1000 has returned with a
\* stored average of 1000 or more and a timeout of 2000.
C18_Witness ==
  /\ pcF = "idle" /\ updated
  /\ old_avg >= 100 /\ old_avg < 1000
  /\ wait_time_avg >= 1000
  /\ fairness_timeout_us = 2000

(***************************************************************************)
(* BatchDispatcher: guard discipline and execution                         *)
(***************************************************************************)

\* The tasks the dispatchers have executed, over all of them.
ExecutedBy == UNION {Range(executed[d]) : d \in Dispatchers}

\* C19: guard discipline and execution.  A dispatcher holds the guard of the
\* source only inside the loop of collect, so never while it executes a task
\* or after collect has returned; no task is executed twice, each dispatcher
\* executes its tasks in the order it collected them, and once the source is
\* drained and every dispatcher has stopped, every task that was collected
\* has been executed.
C19_GuardAndExecution ==
  /\ \A d \in Dispatchers :
       /\ guard = d <=> pcB[d] = "loop"
       /\ NoDup(executed[d])
       /\ \A i, j \in 1..Len(executed[d]) : i < j => executed[d][i] < executed[d][j]
       /\ \A e \in Dispatchers \ {d} : Range(executed[d]) \cap Range(executed[e]) = {}
  /\ (AllDrained /\ ready_queue = <<>>) => ExecutedBy = Range(source)

(***************************************************************************)
(* AdaptiveSpinLock: the contention counter                                *)
(***************************************************************************)

\* C20: contention_count is never negative.  The decrement follows a load
\* that found the counter above 0, and both are made by the thread that has
\* just taken the lock, so no other decrement comes between them.
C20_ContentionNonNegative ==
  /\ contention_count >= 0
  /\ \A t \in Threads : pcL[t] = "sub_cc" => contention_count > 0 /\ lock = 1
  /\ \A t, u \in Threads :
       (t # u /\ pcL[t] \in {"load_cc", "sub_cc"}) => pcL[u] \notin {"load_cc", "sub_cc"}

\* The holder has found the counter at 1 and is about to decrement it while
\* another thread, out of spins, is about to raise it.
C20_Witness ==
  \E t, u \in Threads :
    /\ pcL[t] = "sub_cc"
    /\ pcL[u] = "inc_cc"
    /\ contention_count = 1

(***************************************************************************)
(* LockFreeTaskQueue: the shape of the list under enqueuers                *)
(***************************************************************************)

\* The nodes reached from node n by at most k next links.
RECURSIVE ReachIn(_, _)
ReachIn(n, k) ==
  IF n = NULL THEN {}
  ELSE IF k = 0 THEN {n}
  ELSE {n} \cup ReachIn(next[n], k - 1)

\* The nodes linked into the list: those reachable from head.
Linked == ReachIn(head, Cardinality(Nodes))

\* The last linked node: the linked node with no successor.
IsLast(n) == n \in Linked /\ next[n] = NULL

\* C21: under concurrent enqueuers the tail is a linked node, and it is the
\* last linked node or the one just before it; a step leaves the tail where
\* it is or moves it to its successor; and a next link that is not NULL is
\* never written again.
C21_TailShape ==
  /\ [](/\ tail \in Linked
         /\ (IsLast(tail) \/ (next[tail] # NULL /\ IsLast(next[tail]))))
  /\ [][/\ tail' \in {tail, next[tail]}
         /\ tail' # NULL
         /\ \A n \in Nodes : next[n] # NULL => next'[n] = next[n]]_vars

\* The tail lags by one node behind a node another producer has linked, a
\* second producer has seen the lag and is about to help, and the tail has
\* already moved off the sentinel.
C21_Witness ==
  \E p, q \in Producers :
    /\ p # q
    /\ tail # Sentinel
    /\ next[tail] # NULL
    /\ next[tail] = node[q]
    /\ pcQ[q] = "swing"
    /\ pcQ[p] = "help"
    /\ prev_tail[p] = tail

====
